---- MODULE Spec2Model ----
(***************************************************************************)
(* Model of the metadata extension's save node (modules/nodes/node.py) and *)
(* of the Santodan node selectors (modules/defs/ext/SantodanNodes.py).     *)
(*                                                                         *)
(* Python strings are sequences of one-character strings, dicts are        *)
(* functions whose DOMAIN is the set of keys, None is the value None.      *)
(* Each part of the program has its own specification:                     *)
(*   SpecFmt    format_filename                                            *)
(*   SpecExtra  CreateExtraMetaData.create_extra_metadata                  *)
(*   SpecSel    the ModelAssembler selectors                               *)
(*   SpecLora   parse_lora_hub_data and the LoraMetadataHub selectors      *)
(*   SpecSave   save_images, one loop iteration per step                   *)
(*   SpecFolder save_images called again and again into one folder         *)
(***************************************************************************)
EXTENDS Integers, Sequences, FiniteSets, TLC

VARIABLES
    pc,             \* position of the running part
    filename,       \* format_filename: the template; save_images: the file name
    pnginfo_dict,   \* the parameter record (format_filename, save_images)
    now,            \* format_filename: datetime.now()
    fmt_result,     \* format_filename: what the call returned
    keys_values,    \* create_extra_metadata: the key{i} / value{i} keyword arguments
    extra_metadata, \* the EXTRA_METADATA dict (argument, mutated in place)
    extra_result,   \* create_extra_metadata: what the call returned
    input_data,     \* selectors: input_data[0], slot name -> list of values
    hash_env,       \* the hash functions' outcome for each name
    sel_out,        \* selectors: the selector applied and what it returned
    call,           \* save_images: the arguments of the running call
    full_output_folder, \* save_images: the folder the call writes to
    fs,             \* save_images: the paths of the files on disk
    pnginfo,        \* save_images: the chunks of the PngInfo object
    batch_number,   \* save_images: the index of the next image of the loop
    results,        \* save_images: the result list
    written         \* save_images: what img.save / piexif.insert wrote for each image of the call

vars == <<pc, filename, pnginfo_dict, now, fmt_result, keys_values, extra_metadata,
          extra_result, input_data, hash_env, sel_out, call, full_output_folder,
          fs, pnginfo, batch_number, results, written>>

\* Python's None
None == "None#"

(***************************************************************************)
(* Python built-ins on strings                                             *)
(***************************************************************************)

Min(a, b) == IF a < b THEN a ELSE b

Digits == <<"0", "1", "2", "3", "4", "5", "6", "7", "8", "9">>

DigitSet == {Digits[i] : i \in 1..10}

Whitespace == {" ", "\n", "\t"}

\* s[:n]
Take(s, n) == SubSeq(s, 1, Min(n, Len(s)))

\* s[n:] with n counted from 1: the characters from position n on
Drop(s, n) == SubSeq(s, n, Len(s))

\* str.find(c) counted from 1, 0 when c does not occur
IndexOf(s, c) ==
    IF \E i \in 1..Len(s) : s[i] = c
    THEN CHOOSE i \in 1..Len(s) : s[i] = c /\ \A j \in 1..(i - 1) : s[j] # c
    ELSE 0

\* str.rfind(c) counted from 1, 0 when c does not occur
LastIndexOf(s, c) ==
    IF \E i \in 1..Len(s) : s[i] = c
    THEN CHOOSE i \in 1..Len(s) : s[i] = c /\ \A j \in (i + 1)..Len(s) : s[j] # c
    ELSE 0

RECURSIVE str_replace(_, _, _)
\* str.replace(old, new), old not empty: every occurrence, left to right, not overlapping
str_replace(s, old, new) ==
    IF Len(s) < Len(old) THEN s
    ELSE IF SubSeq(s, 1, Len(old)) = old
         THEN new \o str_replace(Drop(s, Len(old) + 1), old, new)
         ELSE <<Head(s)>> \o str_replace(Tail(s), old, new)

RECURSIVE str_split(_, _)
\* str.split(c) on a one-character separator
str_split(s, c) ==
    LET i == IndexOf(s, c)
    IN IF i = 0 THEN <<s>>
       ELSE <<SubSeq(s, 1, i - 1)>> \o str_split(Drop(s, i + 1), c)

RECURSIVE lstrip(_, _)
lstrip(s, chars) ==
    IF s # <<>> /\ Head(s) \in chars THEN lstrip(Tail(s), chars) ELSE s

RECURSIVE rstrip(_, _)
rstrip(s, chars) ==
    IF s # <<>> /\ s[Len(s)] \in chars THEN rstrip(SubSeq(s, 1, Len(s) - 1), chars) ELSE s

\* str.strip(chars); str.strip() is str_strip(s, Whitespace)
str_strip(s, chars) == rstrip(lstrip(s, chars), chars)

\* str.isdigit()
isdigit(s) == s # <<>> /\ \A i \in 1..Len(s) : s[i] \in DigitSet

DigitValue(c) == (CHOOSE i \in 1..10 : Digits[i] = c) - 1

RECURSIVE int(_)
\* int(s) of a string of digits
int(s) == IF s = <<>> THEN 0 ELSE 10 * int(SubSeq(s, 1, Len(s) - 1)) + DigitValue(s[Len(s)])

RECURSIVE str(_)
\* str(n) of a natural number
str(n) == IF n < 10 THEN <<Digits[n + 1]>> ELSE str(n \div 10) \o <<Digits[(n % 10) + 1]>>

RECURSIVE Zeros(_)
Zeros(k) == IF k <= 0 THEN <<>> ELSE <<"0">> \o Zeros(k - 1)

\* f"{n:0{w}d}"
zfill(n, w) == Zeros(w - Len(str(n))) \o str(n)

\* dict.get(key, default)
dict_get(d, key, default) == IF key \in DOMAIN d THEN d[key] ELSE default

RECURSIVE Concat(_)
\* "".join(parts)
Concat(parts) == IF parts = <<>> THEN <<>> ELSE Head(parts) \o Concat(Tail(parts))

(***************************************************************************)
(* SaveImageWithMetaData.format_filename                                   *)
(***************************************************************************)

\* os.path.basename (posix): what follows the last "/"
basename(p) == Drop(p, LastIndexOf(p, "/") + 1)

\* os.path.splitext(p)[0]: cut at the last dot of the last component, unless
\* that component has only dots before it
splitext_root(p) ==
    LET sepIndex == LastIndexOf(p, "/")
        dotIndex == LastIndexOf(p, ".")
    IN IF dotIndex > sepIndex /\ \E k \in (sepIndex + 1)..(dotIndex - 1) : p[k] # "."
       THEN Take(p, dotIndex - 1)
       ELSE p

RECURSIVE pattern_format_findall(_)
\* re.findall(r"(%[^%]+%)", s): the tokens, left to right, not overlapping
pattern_format_findall(s) ==
    IF s = <<>> THEN <<>>
    ELSE IF Head(s) # "%" THEN pattern_format_findall(Tail(s))
    ELSE LET j == IndexOf(Tail(s), "%")
         IN IF j = 0 THEN <<>>
            ELSE IF j = 1 THEN pattern_format_findall(Tail(s))
            ELSE <<SubSeq(s, 1, j + 1)>> \o pattern_format_findall(Drop(s, j + 2))

date_table(t) ==
    << <<<<"y", "y", "y", "y">>, str(t.year)>>,
       <<<<"M", "M">>, zfill(t.month, 2)>>,
       <<<<"d", "d">>, zfill(t.day, 2)>>,
       <<<<"h", "h">>, zfill(t.hour, 2)>>,
       <<<<"m", "m">>, zfill(t.minute, 2)>>,
       <<<<"s", "s">>, zfill(t.second, 2)>> >>

RECURSIVE date_replace(_, _)
\* for k, v in date_table.items(): date_format = date_format.replace(k, v)
date_replace(date_format, table) ==
    IF table = <<>> THEN date_format
    ELSE date_replace(str_replace(date_format, Head(table)[1], Head(table)[2]), Tail(table))

DefaultDateFormat ==
    <<"y", "y", "y", "y", "M", "M", "d", "d", "h", "h", "m", "m", "s", "s">>

K_seed == <<"s", "e", "e", "d">>
K_width == <<"w", "i", "d", "t", "h">>
K_height == <<"h", "e", "i", "g", "h", "t">>
K_pprompt == <<"p", "p", "r", "o", "m", "p", "t">>
K_nprompt == <<"n", "p", "r", "o", "m", "p", "t">>
K_model == <<"m", "o", "d", "e", "l">>
K_date == <<"d", "a", "t", "e">>

\* The None of `length`
NoLength == -1

\* length = int(parts[1]) if len(parts) > 1 and parts[1].isdigit() else None
modifier_length(parts) ==
    IF Len(parts) > 1 /\ isdigit(parts[2]) THEN int(parts[2]) ELSE NoLength

\* value[:length] if length else value   (None and 0 are both falsy)
truncate(value, length) ==
    IF length # NoLength /\ length # 0 THEN Take(value, length) ELSE value

\* What a call gave: the value it returned, or that it raised.
Returned(v) == [raised |-> FALSE, value |-> v]
Raised == [raised |-> TRUE, value |-> <<>>]

\* One iteration of the loop over the tokens: the filename after the token
\* `segment`; raises on size[1] of a Size without "x".
format_segment(fname, segment, record, t) ==
    LET parts == str_split(str_strip(segment, {"%"}), ":")
        key == parts[1]
    IN IF key = K_seed
       THEN Returned(str_replace(fname, segment,
                IF "Seed" \in DOMAIN record THEN str(record["Seed"]) ELSE <<>>))
       ELSE IF key \in {K_width, K_height}
       THEN LET size == str_split(dict_get(record, "Size", <<"x">>), "x")
            IN IF key = K_width THEN Returned(str_replace(fname, segment, size[1]))
               ELSE IF Len(size) < 2 THEN Raised
               ELSE Returned(str_replace(fname, segment, size[2]))
       ELSE IF key \in {K_pprompt, K_nprompt}
       THEN LET prompt == str_replace(
                    dict_get(record,
                             IF key = K_pprompt THEN "Positive prompt" ELSE "Negative prompt",
                             <<>>),
                    <<"\n">>, <<" ">>)
                length == modifier_length(parts)
            IN Returned(str_replace(fname, segment,
                                    str_strip(truncate(prompt, length), Whitespace)))
       ELSE IF key = K_model
       THEN LET model == splitext_root(basename(dict_get(record, "Model", <<>>)))
                length == modifier_length(parts)
            IN Returned(str_replace(fname, segment, truncate(model, length)))
       ELSE IF key = K_date
       THEN LET date_format == IF Len(parts) > 1 THEN parts[2] ELSE DefaultDateFormat
            IN Returned(str_replace(fname, segment,
                                    date_replace(date_format, date_table(t))))
       ELSE Returned(fname)

RECURSIVE format_segments(_, _, _, _)
\* for segment in result: ...
format_segments(fname, segments, record, t) ==
    IF segments = <<>> THEN Returned(fname)
    ELSE LET r == format_segment(fname, Head(segments), record, t)
         IN IF r.raised THEN r
            ELSE format_segments(r.value, Tail(segments), record, t)

\* format_filename(filename, pnginfo_dict) called at time t
format_filename(fname, record, t) ==
    format_segments(fname, pattern_format_findall(fname), record, t)

(***************************************************************************)
(* format_filename: the inputs of SpecFmt                                  *)
(***************************************************************************)

\* The longest template is the concatenation of MaxPieces pieces.
MaxPieces == 3

P_seed == <<"%", "s", "e", "e", "d", "%">>
P_foo == <<"%", "f", "o", "o", "%">>
P_seed_tail == <<"s", "e", "e", "d", "%">>
P_model0 == <<"%", "m", "o", "d", "e", "l", ":", "0", "%">>
P_model4 == <<"%", "m", "o", "d", "e", "l", ":", "4", "%">>
P_model == <<"%", "m", "o", "d", "e", "l", "%">>
P_pprompt3 == <<"%", "p", "p", "r", "o", "m", "p", "t", ":", "3", "%">>
P_nprompt == <<"%", "n", "p", "r", "o", "m", "p", "t", "%">>
P_width == <<"%", "w", "i", "d", "t", "h", "%">>
P_height == <<"%", "h", "e", "i", "g", "h", "t", "%">>
P_x == <<"x">>
P_us == <<"_">>
P_date == <<"%", "d", "a", "t", "e", "%">>
P_date_ym == <<"%", "d", "a", "t", "e", ":", "y", "y", "y", "y", "-", "M", "M", "%">>

Pieces ==
    {P_seed, P_foo, P_seed_tail, P_model0, P_model4, P_model, P_pprompt3,
     P_nprompt, P_width, P_height, P_x, P_us, P_date, P_date_ym}

\* The template of the documented example: %model:4%_%seed%_%width%x%height%
ExampleTemplate == P_model4 \o P_us \o P_seed \o P_us \o P_width \o P_x \o P_height

ExampleResult == <<"m", "y", "M", "o", "_", "1", "2", "3", "4", "5", "_", "5", "1", "2", "x", "7", "6", "8">>

Templates ==
    {Concat(ps) : ps \in UNION {[1..n -> Pieces] : n \in 0..MaxPieces}} \cup {ExampleTemplate}

EmptyRecord == [k \in {} |-> <<>>]

\* {Seed: 12345, Size: "512x768", Model: "path/to/myModel.safetensors"}
ExampleRecord ==
    [k \in {"Seed", "Size", "Model"} |->
        IF k = "Seed" THEN 12345
        ELSE IF k = "Size" THEN <<"5", "1", "2", "x", "7", "6", "8">>
        ELSE <<"p", "a", "t", "h", "/", "t", "o", "/", "m", "y", "M", "o", "d", "e", "l", ".", "s", "a", "f", "e", "t", "e", "n", "s", "o", "r", "s">>]

PromptRecord ==
    [k \in {"Seed", "Size", "Model", "Positive prompt", "Negative prompt"} |->
        IF k = "Seed" THEN 7
        ELSE IF k = "Size" THEN <<"8", "x", "9">>
        ELSE IF k = "Model" THEN <<"m", ".", "d", "/", "a", "b", ".", "c", ".", "s", "t">>
        ELSE IF k = "Positive prompt" THEN <<" ", "a", "\n", "b", " ", "c">>
        ELSE <<"n", "o", "\n">>]

FmtRecords == {EmptyRecord, ExampleRecord, PromptRecord}

Nows == {[year |-> 2026, month |-> 11, day |-> 3, hour |-> 9, minute |-> 41, second |-> 5]}

NoTime == [year |-> 0, month |-> 0, day |-> 0, hour |-> 0, minute |-> 0, second |-> 0]

(***************************************************************************)
(* The variables a specification does not use keep these values.           *)
(***************************************************************************)

FmtVars == <<filename, now, fmt_result>>
ExtraVars == <<keys_values, extra_metadata, extra_result>>
SelVars == <<input_data, hash_env, sel_out>>
SaveVars == <<call, full_output_folder, fs, pnginfo, batch_number, results, written>>

FmtIdle == filename = <<>> /\ now = NoTime /\ fmt_result = Returned(<<>>)
ExtraIdle == keys_values = <<>> /\ extra_metadata = <<>> /\ extra_result = <<>>
SelIdle == input_data = <<>> /\ hash_env = <<>> /\ sel_out = <<>>
SaveIdle ==
    /\ call = <<>> /\ full_output_folder = <<>> /\ fs = {} /\ pnginfo = <<>>
    /\ batch_number = 0 /\ results = <<>> /\ written = <<>>

(***************************************************************************)
(* CreateExtraMetaData.create_extra_metadata                               *)
(*                                                                         *)
(* Strings are atoms here (they are stored and tested, never cut); an      *)
(* optional argument is <<>> when it is None and <<v>> when it is v.       *)
(***************************************************************************)

\* range(1, 5)
NumExtraSlots == 4

\* bool(x) of a string or None
truthy(x) == x # None /\ x # ""

\* keys_values.get(f"{kind}{i}")
kv_get(kv, kind, i) == dict_get(kv, <<kind, i>>, None)

\* d[key] = value
dict_set(d, key, value) ==
    [k \in DOMAIN d \cup {key} |-> IF k = key THEN value ELSE d[k]]

\* Mutant of unpaired_value: the elif branch left out, nothing is unpaired.
unpaired_value_ignored(key, value) == FALSE

\* elif value: raise ValueError(...)
unpaired_value(key, value) == ~truthy(key) /\ truthy(value)

RECURSIVE extra_metadata_loop(_, _, _)
\* for i in range(1, 5): ...   from slot i on, with the dict as it is
extra_metadata_loop(d, kv, i) ==
    IF i > NumExtraSlots THEN [raised |-> FALSE, value |-> d, dict |-> d]
    ELSE LET key == kv_get(kv, "key", i)
             value == kv_get(kv, "value", i)
         IN IF truthy(key)
            THEN extra_metadata_loop(
                     dict_set(d, key, IF truthy(value) THEN value ELSE ""), kv, i + 1)
            ELSE IF unpaired_value(key, value)
            THEN [raised |-> TRUE, value |-> <<>>, dict |-> d]
            ELSE extra_metadata_loop(d, kv, i + 1)

\* create_extra_metadata(extra_metadata, **keys_values): what it returns or
\* that it raises (raised, value), and the dict object as the call leaves it
create_extra_metadata(em, kv) ==
    extra_metadata_loop(IF em = <<>> THEN EmptyRecord ELSE em[1], kv, 1)

ExtraKeys == {None, "", "a", "b"}
ExtraValues == {None, "", "x", "y"}
ExtraSlotNames == {"key", "value"} \X (1..NumExtraSlots)
ExtraDicts == {<<>>, <<[k \in {"a"} |-> "z"]>>}

InitExtra ==
    /\ pc = "create_extra_metadata"
    /\ keys_values \in {kv \in [ExtraSlotNames -> ExtraKeys \cup ExtraValues] :
                           \A i \in 1..NumExtraSlots :
                              kv[<<"key", i>>] \in ExtraKeys /\ kv[<<"value", i>>] \in ExtraValues}
    /\ extra_metadata \in ExtraDicts
    /\ extra_result = <<>>
    /\ pnginfo_dict = EmptyRecord
    /\ FmtIdle /\ SelIdle /\ SaveIdle

\* The call; a dict passed as argument is mutated in place, also when the
\* call raises at a later slot.
CreateExtraMetadata ==
    /\ pc = "create_extra_metadata"
    /\ LET r == create_extra_metadata(extra_metadata, keys_values)
       IN /\ extra_result' = [raised |-> r.raised, value |-> r.value]
          /\ extra_metadata' = IF extra_metadata = <<>> THEN <<>> ELSE <<r.dict>>
    /\ pc' = "returned"
    /\ UNCHANGED <<keys_values, pnginfo_dict, FmtVars, SelVars, SaveVars>>

NextExtra == CreateExtraMetadata

SpecExtra == InitExtra /\ [][NextExtra]_vars

(***************************************************************************)
(* Properties of create_extra_metadata                                     *)
(***************************************************************************)

ExtraKey(i) == keys_values[<<"key", i>>]

\* value{i}, or the empty string when it is empty or missing
ExtraValueOrEmpty(i) ==
    IF keys_values[<<"value", i>>] \in {None, ""} THEN "" ELSE keys_values[<<"value", i>>]

\* Slot i has a non-empty value and an empty or missing key.
ExtraUnpaired(i) ==
    /\ ExtraKey(i) \in {None, ""}
    /\ keys_values[<<"value", i>>] \notin {None, ""}

\* The highest-numbered slot whose key is k
ExtraLastSlot(k) ==
    CHOOSE j \in 1..NumExtraSlots :
        ExtraKey(j) = k /\ \A h \in (j + 1)..NumExtraSlots : ExtraKey(h) # k

\* C6 as stated: an unpaired value in any slot raises; otherwise the record
\* returned maps every non-empty key{i} to value{i} of the same slot.
C6_EveryKeyMapsToItsOwnValue ==
    pc = "returned" =>
        /\ (\E i \in 1..NumExtraSlots : ExtraUnpaired(i)) => extra_result.raised
        /\ (\A i \in 1..NumExtraSlots : ~ExtraUnpaired(i)) =>
              /\ ~extra_result.raised
              /\ \A i \in 1..NumExtraSlots :
                    ExtraKey(i) \notin {None, ""} =>
                       /\ ExtraKey(i) \in DOMAIN extra_result.value
                       /\ extra_result.value[ExtraKey(i)] = ExtraValueOrEmpty(i)

\* C6 amended: an unpaired value in any slot raises, whatever the other
\* slots hold; otherwise the record returned maps every non-empty key{i} to
\* the value (or the empty string) of the highest-numbered slot with that key.
C6_EveryKeyMapsToLastValue ==
    pc = "returned" =>
        /\ (\E i \in 1..NumExtraSlots : ExtraUnpaired(i)) => extra_result.raised
        /\ (\A i \in 1..NumExtraSlots : ~ExtraUnpaired(i)) =>
              /\ ~extra_result.raised
              /\ \A i \in 1..NumExtraSlots :
                    ExtraKey(i) \notin {None, ""} =>
                       /\ ExtraKey(i) \in DOMAIN extra_result.value
                       /\ extra_result.value[ExtraKey(i)]
                            = ExtraValueOrEmpty(ExtraLastSlot(ExtraKey(i)))

\* A call returned a record although two slots carry the same key with
\* different values.
C6_Witness ==
    /\ pc = "returned"
    /\ extra_result # <<>>
    /\ ~extra_result.raised
    /\ \E i, j \in 1..NumExtraSlots :
          /\ i < j
          /\ ExtraKey(i) = ExtraKey(j)
          /\ ExtraKey(i) \notin {None, ""}
          /\ ExtraValueOrEmpty(i) # ExtraValueOrEmpty(j)

(***************************************************************************)
(* SantodanNodes.py: the values a selector returns                         *)
(*                                                                         *)
(* A Python value is a tagged record whose value is always a sequence:     *)
(* None, a string <<s>>, a list, or the mark of a call that raised.        *)
(***************************************************************************)

PyNone == [tag |-> "None", value |-> <<>>]
PyStr(x) == [tag |-> "str", value |-> <<x>>]
PyList(l) == [tag |-> "list", value |-> l]
PyRaised == [tag |-> "raised", value |-> <<>>]

\* bool(v)
py_truthy(v) ==
    \/ v.tag = "str" /\ v.value # <<"">>
    \/ v.tag = "list" /\ v.value # <<>>

\* The hash functions of ..formatters: a string made from the name, or an
\* exception, as the environment decides for that name.
hash_outcome(env, name) == IF name \in DOMAIN env THEN env[name] ELSE "ok"

(***************************************************************************)
(* The ModelAssembler selectors (slot values are atoms)                    *)
(***************************************************************************)

\* input_data[0].get(key, [None])[0]
slot(inp, key) == IF key \in DOMAIN inp THEN PyStr(inp[key]) ELSE PyNone

\* input_data[0].get("load_mode", ["full_checkpoint"])[0]
load_mode(inp) == dict_get(inp, "load_mode", "full_checkpoint")

\* calc_vae_hash(name), calc_clip_hash(name)
calc_hash(env, name) ==
    IF hash_outcome(env, name) = "raise" THEN PyRaised
    ELSE [tag |-> "str", value |-> <<"hash", name>>]

\* Mutant of get_vae_name: the slot is read whatever the load mode.
get_vae_name_ungated(inp) == slot(inp, "vae_model")

get_vae_name(inp) ==
    IF load_mode(inp) = "separate_components" THEN slot(inp, "vae_model") ELSE PyNone

get_vae_hash(inp, env) ==
    LET vae_name == get_vae_name(inp)
    IN IF py_truthy(vae_name) THEN calc_hash(env, vae_name.value[1]) ELSE PyNone

ClipKeys == <<"clip_model_1", "clip_model_2", "clip_model_3">>

RECURSIVE clip_names_loop(_, _)
\* for key in [...]: if name and name != "None": clip_names.append(name)
clip_names_loop(inp, keys) ==
    IF keys = <<>> THEN <<>>
    ELSE LET name == slot(inp, Head(keys))
         IN (IF py_truthy(name) /\ name.value # <<"None">> THEN name.value ELSE <<>>)
            \o clip_names_loop(inp, Tail(keys))

get_clip_names(inp) ==
    IF load_mode(inp) = "separate_components"
    THEN LET clip_names == clip_names_loop(inp, ClipKeys)
         IN IF clip_names # <<>> THEN PyList(clip_names) ELSE PyNone
    ELSE PyNone

\* [calc_clip_hash(name) for name in names]: raises when one of them raises
get_clip_hashes(inp, env) ==
    LET names == get_clip_names(inp)
    IN IF py_truthy(names)
       THEN IF \E k \in 1..Len(names.value) : hash_outcome(env, names.value[k]) = "raise"
            THEN PyRaised
            ELSE PyList([k \in 1..Len(names.value) |-> calc_hash(env, names.value[k]).value])
       ELSE PyNone

get_clip_type(inp) ==
    IF load_mode(inp) = "separate_components" THEN slot(inp, "clip_type") ELSE PyNone

get_unet_dtype(inp) ==
    IF load_mode(inp) = "separate_components" THEN slot(inp, "weight_dtype") ELSE PyNone

\* The slot is not in input_data[0].
Absent == "Absent#"

\* What the ModelAssembler's input slots may hold
SelSlotValues ==
    [load_mode |-> {Absent, "full_checkpoint", "separate_components", "other_mode"},
     vae_model |-> {Absent, "", "vaeA"},
     clip_model_1 |-> {Absent, "None", "clipA"},
     clip_model_2 |-> {Absent, "None", "clipA"},
     clip_model_3 |-> {Absent, "None", "clipB"},
     clip_type |-> {Absent, "sdxl"},
     weight_dtype |-> {Absent, "fp8"}]

SelNames == {"vaeA", "clipA", "clipB"}

HashOutcomes == {"ok", "raise"}

\* The dict with the slots that are there
PresentSlots(f) == [k \in {x \in DOMAIN f : f[x] # Absent} |-> f[k]]

InitSel ==
    /\ pc = "selectors"
    /\ \E f \in [DOMAIN SelSlotValues -> UNION {SelSlotValues[k] : k \in DOMAIN SelSlotValues}] :
          /\ \A k \in DOMAIN SelSlotValues : f[k] \in SelSlotValues[k]
          /\ input_data = PresentSlots(f)
    /\ hash_env \in [SelNames -> HashOutcomes]
    /\ sel_out = <<>>
    /\ pnginfo_dict = EmptyRecord
    /\ FmtIdle /\ ExtraIdle /\ SaveIdle

\* A selector of CAPTURE_FIELD_LIST["ModelAssembler"] is applied.
Select(name, result) ==
    /\ pc = "selectors"
    /\ sel_out' = [selector |-> name, result |-> result]
    /\ pc' = "returned"
    /\ UNCHANGED <<input_data, hash_env, pnginfo_dict, FmtVars, ExtraVars, SaveVars>>

GetVaeName == Select("get_vae_name", get_vae_name(input_data))
GetVaeHash == Select("get_vae_hash", get_vae_hash(input_data, hash_env))
GetClipNames == Select("get_clip_names", get_clip_names(input_data))
GetClipHashes == Select("get_clip_hashes", get_clip_hashes(input_data, hash_env))
GetClipType == Select("get_clip_type", get_clip_type(input_data))
GetUnetDtype == Select("get_unet_dtype", get_unet_dtype(input_data))

NextSel ==
    \/ GetVaeName
    \/ GetVaeHash
    \/ GetClipNames
    \/ GetClipHashes
    \/ GetClipType
    \/ GetUnetDtype

SpecSel == InitSel /\ [][NextSel]_vars

(***************************************************************************)
(* Properties of the ModelAssembler selectors                              *)
(***************************************************************************)

\* C3: a selector of the vae / clip / dtype fields returns something other
\* than None only when load_mode is "separate_components"; with
\* "full_checkpoint", or no load_mode, it returns None whatever the slots hold.
C3_ModeGatedFields ==
    pc = "returned" =>
        (sel_out.result.tag # "None" =>
            /\ "load_mode" \in DOMAIN input_data
            /\ input_data["load_mode"] = "separate_components")

\* A selector returned None for a full-checkpoint node whose vae, clip,
\* clip-type and dtype slots are all filled.
C3_Witness ==
    /\ pc = "returned"
    /\ sel_out # <<>>
    /\ sel_out.selector = "get_vae_hash"
    /\ sel_out.result.tag = "None"
    /\ load_mode(input_data) = "full_checkpoint"
    /\ {"vae_model", "clip_model_1", "clip_type", "weight_dtype"} \subseteq DOMAIN input_data
    /\ input_data["vae_model"] = "vaeA"
    /\ input_data["clip_model_1"] = "clipA"

(***************************************************************************)
(* SantodanNodes.py: the LoraMetadataHub (slot values are strings)         *)
(***************************************************************************)

\* The part [-+]?\d*\.?\d+ of the pattern: the whole of `text` is a number
lora_number(text) ==
    LET r == IF text # <<>> /\ Head(text) \in {"-", "+"} THEN Tail(text) ELSE text
    IN /\ r # <<>>
       /\ r[Len(r)] \in DigitSet
       /\ \A k \in 1..Len(r) : r[k] \in DigitSet \cup {"."}
       /\ Cardinality({k \in 1..Len(r) : r[k] = "."}) <= 1

\* float(text) of such a number, in thousandths (at most three decimals)
float(text) ==
    LET neg == text # <<>> /\ Head(text) = "-"
        r == IF text # <<>> /\ Head(text) \in {"-", "+"} THEN Tail(text) ELSE text
        dot == IndexOf(r, ".")
        whole == IF dot = 0 THEN r ELSE SubSeq(r, 1, dot - 1)
        frac == IF dot = 0 THEN <<>> ELSE Drop(r, dot + 1)
        thousandths == int(whole) * (10 * 10 * 10) + int(Take(frac \o <<"0", "0", "0">>, 3))
    IN IF neg THEN 0 - thousandths ELSE thousandths

\* Mutant of lora_name_char: the name may run over a comma.
lora_name_char_any(c) == TRUE

\* The class [^,] of the name
lora_name_char(c) == c # ","

\* The pattern's tail \s\(([-+]?\d*\.?\d+)\) matches at position k of s
lora_tail_at(s, k) ==
    /\ k + 1 <= Len(s)
    /\ s[k] \in Whitespace
    /\ s[k + 1] = "("
    /\ LET close == IndexOf(Drop(s, k + 2), ")")
       IN close # 0 /\ lora_number(SubSeq(s, k + 2, k + close))

\* The lengths L of a name [^,]+? starting at position i after which the
\* tail matches; the lazy quantifier takes the smallest
lora_name_lengths(s, i) ==
    {L \in 1..(Len(s) - i) :
        /\ \A k \in i..(i + L - 1) : lora_name_char(s[k])
        /\ lora_tail_at(s, i + L)}

RECURSIVE lora_findall(_, _)
\* re.findall(r"([^,]+?)\s\(([-+]?\d*\.?\d+)\)", s) from position i on:
\* the (name, number) groups, left to right, not overlapping
lora_findall(s, i) ==
    IF i > Len(s) THEN <<>>
    ELSE IF lora_name_lengths(s, i) = {} THEN lora_findall(s, i + 1)
    ELSE LET L == CHOOSE x \in lora_name_lengths(s, i) :
                     \A y \in lora_name_lengths(s, i) : x <= y
             close == IndexOf(Drop(s, i + L + 2), ")")
         IN << <<SubSeq(s, i, i + L - 1), SubSeq(s, i + L + 2, i + L + close)>> >>
            \o lora_findall(s, i + L + close + 2)

\* for m in matches: all_loras.append({"name": m[0].strip(), "strength": float(m[1])})
lora_entries(matches) ==
    [k \in 1..Len(matches) |->
        [name |-> str_strip(matches[k][1], Whitespace), strength |-> float(matches[k][2])]]

\* range(1, 5)
NumLoraSlots == 4

RECURSIVE lora_slots_loop(_, _)
\* for i in range(1, 5): ...   a slot holds <<"str", text>>, <<"list", text>>
\* (a list, whose first element is taken) or <<"other", <<>>>> (not a string);
\* an empty or missing string and a value that is no string give nothing
lora_slots_loop(inputs, i) ==
    IF i > NumLoraSlots THEN <<>>
    ELSE LET given == <<"loras", i>> \in DOMAIN inputs
             is_str == given /\ inputs[<<"loras", i>>][1] \in {"str", "list"}
             lora_str == IF is_str THEN inputs[<<"loras", i>>][2] ELSE <<>>
         IN (IF lora_str # <<>> /\ is_str
             THEN lora_entries(lora_findall(lora_str, 1)) ELSE <<>>)
            \o lora_slots_loop(inputs, i + 1)

parse_lora_hub_data(inputs) == lora_slots_loop(inputs, 1)

get_hub_lora_names(inputs) ==
    LET data == parse_lora_hub_data(inputs)
    IN IF data # <<>> THEN PyList([k \in 1..Len(data) |-> data[k].name]) ELSE PyNone

get_hub_lora_strengths(inputs) ==
    LET data == parse_lora_hub_data(inputs)
    IN IF data # <<>> THEN PyList([k \in 1..Len(data) |-> data[k].strength]) ELSE PyNone

\* calc_lora_hash(name, input_data) when it returns
calc_lora_hash(env, name) == IF hash_outcome(env, name) = "empty" THEN <<>> ELSE <<"#">> \o name

\* Mutant of hash_entry: an entry whose hash raises is left out of the list.
hash_entry_dropped(env, name) ==
    IF hash_outcome(env, name) = "raise" THEN <<>>
    ELSE LET h == calc_lora_hash(env, name)
         IN <<IF h # <<>> THEN <<h>> ELSE <<>>>>

\* try: hashes.append(h if h else None) / except: hashes.append(None)
\* what one entry appends: None is <<>>, the hash h is <<h>>
hash_entry(env, name) ==
    IF hash_outcome(env, name) = "raise" THEN << <<>> >>
    ELSE LET h == calc_lora_hash(env, name)
         IN <<IF h # <<>> THEN <<h>> ELSE <<>>>>

RECURSIVE hashes_loop(_, _)
\* for d in data: ...
hashes_loop(env, data) ==
    IF data = <<>> THEN <<>>
    ELSE hash_entry(env, Head(data).name) \o hashes_loop(env, Tail(data))

get_hub_lora_hashes(inputs, env) ==
    LET data == parse_lora_hub_data(inputs)
    IN IF data = <<>> THEN PyNone ELSE PyList(hashes_loop(env, data))

(***************************************************************************)
(* SpecLora: the hub's slots are filled segment by segment, then a         *)
(* selector of CAPTURE_FIELD_LIST["LoraMetadataHub"] is applied            *)
(***************************************************************************)

\* The slots hold at most MaxSegments comma-separated segments in all.
MaxSegments == 2

G_a == <<"a", " ", "(", "1", ")">>
G_b == <<"b", " ", "(", "-", ".", "5", ")">>
G_c == <<"c">>
G_nospace == <<"a", "(", "1", ")">>
G_spaces == <<" ", "b", " ", " ", "(", "+", "1", ".", "5", ")", " ">>
G_notnumber == <<"a", " ", "(", "x", ")">>
G_two == <<"a", " ", "(", "1", ")", " ", "b", " ", "(", "2", ")">>

SegmentKinds == {G_a, G_b, G_c, G_nospace, G_spaces, G_notnumber, G_two}

LoraNames == {<<"a">>, <<"b">>}

LoraHashOutcomes == {"ok", "raise", "empty"}

\* The example of the documentation and the entries it gives
ExampleLoras == <<"l", "o", "r", "a", "A", ".", "s", "a", "f", "e", "t", "e", "n", "s", "o", "r", "s", " ", "(", "0", ".", "8", ")", ",", " ", "l", "o", "r", "a", "B", ".", "s", "a", "f", "e", "t", "e", "n", "s", "o", "r", "s", " ", "(", "-", "0", ".", "3", ")">>
ExampleLorasMalformed == <<"l", "o", "r", "a", "A", ".", "s", "a", "f", "e", "t", "e", "n", "s", "o", "r", "s", " ", "(", "0", ".", "8", ")", ",", " ", "l", "o", "r", "a", "C", ",", " ", "l", "o", "r", "a", "B", ".", "s", "a", "f", "e", "t", "e", "n", "s", "o", "r", "s", " ", "(", "-", "0", ".", "3", ")">>
ExampleLoraA == <<"l", "o", "r", "a", "A", ".", "s", "a", "f", "e", "t", "e", "n", "s", "o", "r", "s">>
ExampleLoraB == <<"l", "o", "r", "a", "B", ".", "s", "a", "f", "e", "t", "e", "n", "s", "o", "r", "s">>

LoraSlotKeys == {<<"loras", i>> : i \in 1..NumLoraSlots}

SegmentCount(inputs) ==
    LET n[S \in SUBSET LoraSlotKeys] ==
            IF S = {} THEN 0
            ELSE LET k == CHOOSE x \in S : TRUE
                 IN n[S \ {k}] + (IF inputs[k][1] = "other" THEN 1
                                  ELSE Len(str_split(inputs[k][2], ",")))
    IN n[DOMAIN inputs]

InitLora ==
    /\ pc = "hub_inputs"
    /\ input_data = EmptyRecord
    /\ hash_env = <<>>
    /\ sel_out = <<>>
    /\ pnginfo_dict = EmptyRecord
    /\ FmtIdle /\ ExtraIdle /\ SaveIdle

\* The graph gives slot loras_i a further segment.
AppendLoraSegment(i, seg) ==
    /\ pc = "hub_inputs"
    /\ SegmentCount(input_data) < MaxSegments
    /\ IF <<"loras", i>> \in DOMAIN input_data
       THEN /\ input_data[<<"loras", i>>][1] # "other"
            /\ input_data' = [input_data EXCEPT ![<<"loras", i>>][2] = @ \o <<",">> \o seg]
       ELSE \E tag \in {"str", "list"} :
               input_data' = dict_set(input_data, <<"loras", i>>, <<tag, seg>>)
    /\ UNCHANGED <<pc, hash_env, sel_out, pnginfo_dict, FmtVars, ExtraVars, SaveVars>>

\* The graph gives slot loras_i a value that is no string.
SetLoraSlotOther(i) ==
    /\ pc = "hub_inputs"
    /\ SegmentCount(input_data) < MaxSegments
    /\ <<"loras", i>> \notin DOMAIN input_data
    /\ input_data' = dict_set(input_data, <<"loras", i>>, <<"other", <<>>>>)
    /\ UNCHANGED <<pc, hash_env, sel_out, pnginfo_dict, FmtVars, ExtraVars, SaveVars>>

HubSelect(name, result) ==
    /\ pc = "hub_inputs"
    /\ sel_out' = [selector |-> name, result |-> result]
    /\ pc' = "returned"
    /\ UNCHANGED <<input_data, pnginfo_dict, FmtVars, ExtraVars, SaveVars>>

ParseLoraHubData ==
    /\ HubSelect("parse_lora_hub_data", PyList(parse_lora_hub_data(input_data)))
    /\ UNCHANGED hash_env

GetHubLoraNames ==
    /\ HubSelect("get_hub_lora_names", get_hub_lora_names(input_data))
    /\ UNCHANGED hash_env

GetHubLoraStrengths ==
    /\ HubSelect("get_hub_lora_strengths", get_hub_lora_strengths(input_data))
    /\ UNCHANGED hash_env

\* calc_lora_hash gives, for each name, a hash, an empty hash or an exception.
GetHubLoraHashes ==
    \E env \in [LoraNames -> LoraHashOutcomes] :
        /\ HubSelect("get_hub_lora_hashes", get_hub_lora_hashes(input_data, env))
        /\ hash_env' = env

NextLora ==
    \/ \E i \in 1..NumLoraSlots, seg \in SegmentKinds : AppendLoraSegment(i, seg)
    \/ \E i \in 1..NumLoraSlots : SetLoraSlotOther(i)
    \/ ParseLoraHubData
    \/ GetHubLoraNames
    \/ GetHubLoraStrengths
    \/ GetHubLoraHashes

SpecLora == InitLora /\ [][NextLora]_vars

(***************************************************************************)
(* Properties of parse_lora_hub_data                                       *)
(***************************************************************************)

\* The position of the segment's only "(" when the segment is a name, an
\* opening parenthesis, a number, a closing parenthesis and then at most
\* whitespace; 0 otherwise.
SegmentParen(seg) ==
    LET body == rstrip(seg, Whitespace)
        k == IndexOf(body, "(")
    IN IF /\ k # 0
          /\ Cardinality({j \in 1..Len(body) : body[j] \in {"(", ")"}}) = 2
          /\ body[Len(body)] = ")"
          /\ lora_number(SubSeq(body, k + 1, Len(body) - 1))
       THEN k ELSE 0

SegmentNumber(seg) ==
    LET body == rstrip(seg, Whitespace)
    IN SubSeq(body, SegmentParen(seg) + 1, Len(body) - 1)

\* <name>(<signed-float>): a name that is not blank, then the number
DocumentedForm(seg) ==
    /\ SegmentParen(seg) # 0
    /\ str_strip(SubSeq(seg, 1, SegmentParen(seg) - 1), Whitespace) # <<>>

\* No parenthesized number anywhere in the segment
NoParenthesizedNumber(seg) ==
    \A k \in 1..Len(seg) :
        seg[k] = "(" =>
            LET close == IndexOf(Drop(seg, k + 1), ")")
            IN close = 0 \/ ~lora_number(SubSeq(seg, k + 1, k + close - 1))

\* <name><whitespace>(<signed-float>): at least one character, one
\* whitespace character, then the number
SpacedForm(seg) ==
    /\ SegmentParen(seg) >= 3
    /\ seg[SegmentParen(seg) - 1] \in Whitespace

\* No parenthesized number that follows a whitespace character and at least
\* one character before it
NoSpacedNumber(seg) ==
    \A k \in 3..Len(seg) :
        (seg[k] = "(" /\ seg[k - 1] \in Whitespace) =>
            LET close == IndexOf(Drop(seg, k + 1), ")")
            IN close = 0 \/ ~lora_number(SubSeq(seg, k + 1, k + close - 1))

SegmentEntry(seg) ==
    [name |-> str_strip(SubSeq(seg, 1, SegmentParen(seg) - 1), Whitespace),
     strength |-> float(SegmentNumber(seg))]

\* The text of slot i as the code reads it
SlotText(i) ==
    IF <<"loras", i>> \in DOMAIN input_data /\ input_data[<<"loras", i>>][1] # "other"
    THEN input_data[<<"loras", i>>][2] ELSE <<>>

SlotSegments(i) == IF SlotText(i) = <<>> THEN <<>> ELSE str_split(SlotText(i), ",")

\* Slot 1's entries, then slot 2's, 3's and 4's; within a slot the entries
\* of its segments, left to right
EntriesBySegment(PerSegment(_)) ==
    Concat([i \in 1..NumLoraSlots |->
               Concat([k \in 1..Len(SlotSegments(i)) |-> PerSegment(SlotSegments(i)[k])])])

DocumentedSegmentEntries(seg) == IF DocumentedForm(seg) THEN <<SegmentEntry(seg)>> ELSE <<>>

\* C4 as stated: a segment <name>(<signed-float>) gives one entry, a segment
\* with no parenthesized number gives none, slot after slot and segment
\* after segment (on slots all of whose segments are of one of these kinds).
C4_EntryPerDocumentedSegment ==
    (/\ pc = "returned"
     /\ sel_out.selector = "parse_lora_hub_data"
     /\ \A i \in 1..NumLoraSlots : \A k \in 1..Len(SlotSegments(i)) :
           DocumentedForm(SlotSegments(i)[k]) \/ NoParenthesizedNumber(SlotSegments(i)[k]))
    => sel_out.result.value = EntriesBySegment(DocumentedSegmentEntries)

SpacedSegmentEntries(seg) ==
    IF SpacedForm(seg) THEN <<SegmentEntry(seg)>>
    ELSE IF NoSpacedNumber(seg) THEN <<>>
    ELSE lora_entries(lora_findall(seg, 1))

\* C4 amended: the list is slot 1's entries, then slot 2's, 3's and 4's, and
\* within a slot those of its comma-delimited segments from left to right,
\* each segment giving what it gives alone; a segment
\* <name><whitespace>(<signed-float>) gives one entry, the name trimmed and
\* the strength parsed; a segment with no parenthesized number after a
\* whitespace character, such as name(0.8), gives none. The documented
\* example parses as documented, with and without the malformed segment.
C4_EntryPerSpacedSegment ==
    /\ (pc = "hub_inputs" /\ DOMAIN input_data = {}) =>
          /\ lora_entries(lora_findall(ExampleLoras, 1))
                = <<[name |-> ExampleLoraA, strength |-> 800],
                    [name |-> ExampleLoraB, strength |-> -300]>>
          /\ lora_entries(lora_findall(ExampleLorasMalformed, 1))
                = lora_entries(lora_findall(ExampleLoras, 1))
    /\ (pc = "returned" /\ sel_out.selector = "parse_lora_hub_data")
          => sel_out.result.value = EntriesBySegment(SpacedSegmentEntries)

\* parse_lora_hub_data returned the entry of a segment whose sibling, to its
\* left in the same slot, has no number.
C4_Witness ==
    /\ pc = "returned"
    /\ sel_out # <<>>
    /\ sel_out.selector = "parse_lora_hub_data"
    /\ \E i \in 1..NumLoraSlots : SlotSegments(i) = <<G_c, G_b>>
    /\ sel_out.result.value = <<[name |-> <<"b">>, strength |-> -500]>>

(***************************************************************************)
(* Properties of get_hub_lora_hashes                                       *)
(***************************************************************************)

\* C5: the hash list has the length and order of the name list, None at
\* exactly the entries whose hash raised or was empty, the computed hash at
\* every other entry; without entries both are None.
C5_HashFailureIsLocal ==
    (pc = "returned" /\ sel_out.selector = "get_hub_lora_hashes") =>
        LET names == get_hub_lora_names(input_data)
            hashes == sel_out.result
        IN /\ hashes.tag # "raised"
           /\ names.tag = "None" <=> hashes.tag = "None"
           /\ names.tag = "list" =>
                 /\ hashes.tag = "list"
                 /\ Len(hashes.value) = Len(names.value)
                 /\ \A k \in 1..Len(names.value) :
                       hashes.value[k] =
                          IF hash_env[names.value[k]] \in {"raise", "empty"}
                          THEN <<>>
                          ELSE << <<"#">> \o names.value[k] >>

\* The hashes of two entries were asked for; the first one's raised and the
\* second one's was computed.
C5_Witness ==
    /\ pc = "returned"
    /\ sel_out # <<>>
    /\ sel_out.selector = "get_hub_lora_hashes"
    /\ sel_out.result.tag = "list"
    /\ Len(sel_out.result.value) = 2
    /\ get_hub_lora_names(input_data).value = << <<"a">>, <<"b">> >>
    /\ hash_env[<<"a">>] = "raise"
    /\ hash_env[<<"b">>] = "ok"
    /\ sel_out.result.value = << <<>>, << <<"#", "b">> >> >>

(***************************************************************************)
(* SpecFmt: format_filename applied to a template and a record             *)
(***************************************************************************)

InitFmt ==
    /\ pc = "format_filename"
    /\ filename \in Templates
    /\ pnginfo_dict \in FmtRecords
    /\ now \in Nows
    /\ fmt_result = Returned(<<>>)
    /\ ExtraIdle /\ SelIdle /\ SaveIdle

FormatFilename ==
    /\ pc = "format_filename"
    /\ fmt_result' = format_filename(filename, pnginfo_dict, now)
    /\ pc' = "returned"
    /\ UNCHANGED <<filename, pnginfo_dict, now, ExtraVars, SelVars, SaveVars>>

NextFmt == FormatFilename

SpecFmt == InitFmt /\ [][NextFmt]_vars

(***************************************************************************)
(* Properties of format_filename                                           *)
(***************************************************************************)

RECURSIVE TemplateItems(_)
\* A template cut into its tokens (%...% with a non-empty body, left to
\* right) and the characters outside them.
TemplateItems(s) ==
    IF s = <<>> THEN <<>>
    ELSE IF Head(s) = "%" /\ IndexOf(Tail(s), "%") >= 2
         THEN <<[tok |-> TRUE, text |-> SubSeq(s, 1, IndexOf(Tail(s), "%") + 1)]>>
              \o TemplateItems(Drop(s, IndexOf(Tail(s), "%") + 2))
         ELSE <<[tok |-> FALSE, text |-> <<Head(s)>>]>> \o TemplateItems(Tail(s))

TokenParts(text) == str_split(SubSeq(text, 2, Len(text) - 1), ":")

TokenKey(text) == TokenParts(text)[1]

RecognizedKeys == {K_seed, K_width, K_height, K_pprompt, K_nprompt, K_model, K_date}

\* The text the code puts in place of a recognized token standing alone.
CodeValue(text, record, t) == format_segment(text, text, record, t).value

\* Every occurrence of a token's text in the template is that token: no
\* text such as %foo%seed% in which "%seed%" also straddles two tokens.
NoStraddle(template) ==
    LET items == TemplateItems(template)
        mark == <<"#">>
    IN \A i \in 1..Len(items) :
          items[i].tok =>
             str_replace(template, items[i].text, mark)
               = Concat([j \in 1..Len(items) |->
                            IF items[j].tok /\ items[j].text = items[i].text
                            THEN mark ELSE items[j].text])

\* The first n characters, for every n >= 0.
FirstChars(value, n) == SubSeq(value, 1, Min(n, Len(value)))

\* What the documentation puts in place of a token: a model or prompt token
\* with a numeric modifier N gives the first N characters.
DocumentedValue(text, record, t) ==
    LET parts == TokenParts(text)
        numeric == Len(parts) > 1 /\ isdigit(parts[2])
    IN IF parts[1] = K_model
       THEN LET model == splitext_root(basename(dict_get(record, "Model", <<>>)))
            IN IF numeric THEN FirstChars(model, int(parts[2])) ELSE model
       ELSE IF parts[1] \in {K_pprompt, K_nprompt}
       THEN LET prompt == str_replace(
                    dict_get(record,
                             IF parts[1] = K_pprompt THEN "Positive prompt"
                             ELSE "Negative prompt", <<>>),
                    <<"\n">>, <<" ">>)
            IN str_strip(IF numeric THEN FirstChars(prompt, int(parts[2])) ELSE prompt,
                         Whitespace)
       ELSE IF parts[1] \in RecognizedKeys THEN CodeValue(text, record, t)
       ELSE text

DocumentedResult(template, record, t) ==
    LET items == TemplateItems(template)
    IN Concat([j \in 1..Len(items) |->
                  IF items[j].tok THEN DocumentedValue(items[j].text, record, t)
                  ELSE items[j].text])

\* C7: every %model:N%, %pprompt:N% and %nprompt:N% token is replaced by the
\* first N characters of the model's base filename, or of the flattened
\* prompt (then trimmed), for every numeric N; without a modifier by the
\* whole value; and the documented example gives myMo_12345_512x768.
C7_TruncationForEveryN ==
    /\ format_filename(ExampleTemplate, ExampleRecord, now).value = ExampleResult
    /\ (pc = "returned" /\ NoStraddle(filename)) =>
          /\ ~fmt_result.raised
          /\ fmt_result.value = DocumentedResult(filename, pnginfo_dict, now)

\* The modifiers of the template's model and prompt tokens are all positive.
PositiveModifiers(template) ==
    LET items == TemplateItems(template)
    IN \A j \in 1..Len(items) :
          (items[j].tok /\ Len(TokenParts(items[j].text)) > 1
                        /\ isdigit(TokenParts(items[j].text)[2]))
             => int(TokenParts(items[j].text)[2]) > 0

\* C7 for N >= 1 only.
FmtTruncationPositiveN ==
    (pc = "returned" /\ NoStraddle(filename) /\ PositiveModifiers(filename)) =>
        /\ ~fmt_result.raised
        /\ fmt_result.value = DocumentedResult(filename, pnginfo_dict, now)

\* C8: every unrecognized token and all text outside tokens stay as written,
\* recognized tokens are replaced, and no error is raised.
C8_UnrecognizedVerbatim ==
    pc = "returned" =>
        /\ ~fmt_result.raised
        /\ LET items == TemplateItems(filename)
           IN fmt_result.value =
                 Concat([j \in 1..Len(items) |->
                            IF items[j].tok /\ TokenKey(items[j].text) \in RecognizedKeys
                            THEN CodeValue(items[j].text, pnginfo_dict, now)
                            ELSE items[j].text])

\* C8 on the templates in which no token's text straddles two others.
FmtUnrecognizedVerbatimNoStraddle ==
    (pc = "returned" /\ NoStraddle(filename)) => C8_UnrecognizedVerbatim

(***************************************************************************)
(* SaveImageWithMetaData.save_images                                       *)
(*                                                                         *)
(* File names and paths are sequences of characters, the texts stored as   *)
(* metadata are atoms.  An optional argument is <<>> when it is None and   *)
(* <<v>> when it is v; a dict that is iterated is the sequence of its      *)
(* items, <<key, value>> pairs in insertion order.                         *)
(***************************************************************************)

S_png == <<"p", "n", "g">>
S_jpg == <<"j", "p", "g">>
S_webp == <<"w", "e", "b", "p">>
S_json == <<"j", "s", "o", "n">>
S_with_json == <<"_", "w", "i", "t", "h", "_", "j", "s", "o", "n">>

OUTPUT_FORMATS ==
    {S_png, S_png \o S_with_json, S_jpg, S_jpg \o S_with_json,
     S_webp, S_webp \o S_with_json}

METADATA_OPTIONS == {"full", "default", "workflow_only", "none"}

\* self.output_dir, self.prefix_append, self.type
output_dir == <<"o">>
prefix_append == <<>>
self_type == "output"

\* s.endswith(suffix)
endswith(s, suffix) ==
    /\ Len(s) >= Len(suffix)
    /\ SubSeq(s, Len(s) - Len(suffix) + 1, Len(s)) = suffix

parse_output_format(output_format) ==
    [base_format |-> str_replace(output_format, S_with_json, <<>>),
     save_workflow_json |-> endswith(output_format, S_with_json)]

\* os.path.join(a, b) (posix)
path_join(a, b) ==
    IF b # <<>> /\ Head(b) = "/" THEN b
    ELSE IF a = <<>> \/ a[Len(a)] = "/" THEN a \o b
    ELSE a \o <<"/">> \o b

\* os.path.dirname(p) (posix)
dirname(p) ==
    LET head == Take(p, LastIndexOf(p, "/"))
    IN IF \E k \in 1..Len(head) : head[k] # "/" THEN rstrip(head, {"/"}) ELSE head

\* os.path.exists(path)
path_exists(files, path) == path \in files

\* The names of the files of a folder
listdir(files, folder) == {basename(p) : p \in {q \in files : dirname(q) = folder}}

\* PurePath.stem: the name without its last suffix
stem(name) ==
    LET i == LastIndexOf(name, ".")
    IN IF 1 < i /\ i < Len(name) THEN Take(name, i - 1) ELSE name

\* The position in pat of the "]" that closes the class opened by pat[1] = "[",
\* 0 when there is none (the "[" is then an ordinary character).  A "]" right
\* after the "[" or the "[!" belongs to the class.
class_end(pat) ==
    LET start == IF Len(pat) >= 2 /\ pat[2] = "!" THEN 3 ELSE 2
        from == IF Len(pat) >= start /\ pat[start] = "]" THEN start + 1 ELSE start
        ends == {k \in from..Len(pat) : pat[k] = "]"}
    IN IF ends = {} THEN 0 ELSE CHOOSE k \in ends : \A m \in ends : k <= m

\* c matches the class whose text, between the brackets, is stuff (the
\* classes of the names used here hold no range)
class_match(c, stuff) ==
    IF Head(stuff) = "!"
    THEN \A k \in 2..Len(stuff) : stuff[k] # c
    ELSE \E k \in 1..Len(stuff) : stuff[k] = c

RECURSIVE fnmatch(_, _)
\* The match of one path component by a glob pattern: * any characters,
\* ? any one character, [seq] one character of seq, [!seq] one not of seq
fnmatch(name, pat) ==
    IF pat = <<>> THEN name = <<>>
    ELSE IF Head(pat) = "*"
    THEN \E k \in 0..Len(name) : fnmatch(Drop(name, k + 1), Tail(pat))
    ELSE IF name = <<>> THEN FALSE
    ELSE IF Head(pat) = "?" THEN fnmatch(Tail(name), Tail(pat))
    ELSE IF Head(pat) = "[" /\ class_end(pat) # 0
    THEN /\ class_match(Head(name), SubSeq(pat, 2, class_end(pat) - 1))
         /\ fnmatch(Tail(name), Drop(pat, class_end(pat) + 1))
    ELSE Head(name) = Head(pat) /\ fnmatch(Tail(name), Tail(pat))

\* Path(folder).glob(pattern), the names found
glob(files, folder, pattern) == {n \in listdir(files, folder) : fnmatch(n, pattern)}

RECURSIVE next_counter(_, _, _)
\* while f"{filename}_{counter}" in existing_files: counter += 1
next_counter(existing_files, fname, counter) ==
    IF (fname \o <<"_">> \o str(counter)) \in existing_files
    THEN next_counter(existing_files, fname, counter + 1)
    ELSE counter

find_next_available_filename(files, folder, fname, base_format) ==
    LET existing_files ==
            {stem(n) : n \in glob(files, folder, fname \o <<"_", "*", ".">> \o base_format)}
    IN fname \o <<"_">> \o str(next_counter(existing_files, fname, 1))
             \o <<".">> \o base_format

\* folder_paths.get_save_image_path(filename_prefix, output_dir, ...), of
\* which save_images uses the folder, the file name and the prefix
get_save_image_path(prefix, dir) ==
    [full_output_folder |-> IF dirname(prefix) = <<>> THEN dir
                            ELSE path_join(dir, dirname(prefix)),
     filename |-> basename(prefix),
     filename_prefix |-> prefix]

\* The record gen_pnginfo() captures from the graph
gen_pnginfo == ExampleRecord

\* Capture.gen_parameters_str(record): a text made from the record
gen_parameters_str(record) == [tag |-> "parameters", value |-> <<record>>]

\* json.dumps(v)
json_dumps(v) == [tag |-> "json", value |-> <<v>>]

\* A dict as a value (a prompt, a workflow)
PyDict(x) == [tag |-> "dict", value |-> <<x>>]

\* v if isinstance(v, str) else json.dumps(v)
text_of(v) == IF v.tag = "str" THEN v ELSE json_dumps(v)

\* PngInfo.add_text(key, value): one more chunk at the end of the object's
\* list of chunks
add_text(chunks, key, value) == Append(chunks, [key |-> key, value |-> value])

\* Mutant of dict_copy: pnginfo_copy = pnginfo_dict, the same object.
dict_copy_aliased(d) == [pnginfo_dict |-> d, pnginfo_copy |-> d, aliased |-> TRUE]

\* pnginfo_copy = pnginfo_dict.copy(): two dict objects from here on
dict_copy(d) == [pnginfo_dict |-> d, pnginfo_copy |-> d, aliased |-> FALSE]

\* pnginfo_copy[key] = value
copy_set(objs, key, value) ==
    [pnginfo_dict |-> IF objs.aliased THEN dict_set(objs.pnginfo_dict, key, value)
                      ELSE objs.pnginfo_dict,
     pnginfo_copy |-> dict_set(objs.pnginfo_copy, key, value),
     aliased |-> objs.aliased]

RECURSIVE add_extra_pnginfo(_, _)
\* for k, v in extra_pnginfo.items(): metadata.add_text(k, ...)
add_extra_pnginfo(chunks, items) ==
    IF items = <<>> THEN chunks
    ELSE add_extra_pnginfo(add_text(chunks, Head(items)[1], text_of(Head(items)[2])),
                           Tail(items))

\* prepare_pnginfo: whether it returned the metadata object or None, the
\* chunks of that object and the dict pnginfo_dict, both as the call leaves
\* them
prepare_pnginfo(metadata, d, index, total_images, prompt, extra_pnginfo, metadata_scope) ==
    IF metadata_scope = "none"
    THEN [returned |-> FALSE, metadata |-> metadata, pnginfo_dict |-> d]
    ELSE LET copied == dict_copy(d)
             objs == IF total_images > 1
                     THEN copy_set(copy_set(copied, "Batch index", index),
                                   "Batch size", total_images)
                     ELSE copied
             m1 == IF metadata_scope = "full"
                   THEN add_text(metadata, "parameters",
                                 gen_parameters_str(objs.pnginfo_copy))
                   ELSE metadata
             m2 == IF prompt # <<>> /\ metadata_scope # "workflow_only"
                   THEN add_text(m1, "prompt", json_dumps(prompt[1]))
                   ELSE m1
             m3 == IF extra_pnginfo # <<>> /\ extra_pnginfo[1] # <<>>
                   THEN add_extra_pnginfo(m2, extra_pnginfo[1])
                   ELSE m2
         IN [returned |-> TRUE, metadata |-> m3, pnginfo_dict |-> objs.pnginfo_dict]

\* The items of extra_metadata for which `if k` holds
truthy_items(items) ==
    LET Test(item) == item[1] # ""
    IN SelectSeq(items, Test)

\* for k, v in extra_metadata.items(): if k: metadata.add_text(k, ...)
add_extra_metadata(chunks, items) == add_extra_pnginfo(chunks, truthy_items(items))

\* if pnginfo_dict is None: pnginfo_dict = self.gen_pnginfo() if ... else {}
base_record(c) ==
    IF c.pnginfo_dict # <<>> THEN c.pnginfo_dict[1]
    ELSE IF c.metadata_scope = "full" THEN gen_pnginfo
    ELSE EmptyRecord

\* f"{filename}_{batch_number:05}" if include_batch_num else filename
filename_with_batch_num(fname, index, include_batch_num) ==
    IF include_batch_num THEN fname \o <<"_">> \o zfill(index, 5) ELSE fname

\* The key "workflow" of a dict given by its items
has_workflow(items) == \E i \in 1..Len(items) : items[i][1] = "workflow"

(***************************************************************************)
(* save_images, step by step: the statements before the loop, one          *)
(* iteration of the loop per step, the statements after the loop.  A call  *)
(* ends with pc = "returned" or with pc the name of the exception raised.  *)
(***************************************************************************)

EndOfCall == {"returned", "IndexError", "AttributeError", "TypeError", "KeyError"}

\* Lines 100-121: the record, the PngInfo object, the folder and the file name
SaveImages ==
    /\ pc = "save_images"
    /\ LET d == base_record(call)
           prefix == format_filename(call.filename_prefix, d, now)
           sub == format_filename(call.subdirectory_name, d, now)
       IN /\ pnginfo' = <<>>
          /\ pnginfo_dict' = d
          /\ IF prefix.raised \/ (call.subdirectory_name # <<>> /\ sub.raised)
             THEN /\ pc' = "IndexError"
                  /\ UNCHANGED <<filename, full_output_folder>>
             ELSE LET p == get_save_image_path(prefix.value \o prefix_append, output_dir)
                  IN /\ pc' = "loop"
                     /\ IF call.subdirectory_name # <<>>
                        THEN /\ full_output_folder' = path_join(output_dir, sub.value)
                             /\ filename' = p.filename_prefix
                        ELSE /\ full_output_folder' = p.full_output_folder
                             /\ filename' = p.filename
    /\ batch_number' = 0
    /\ results' = <<>>
    /\ written' = <<>>
    /\ UNCHANGED <<call, fs, now, fmt_result, ExtraVars, SelVars>>

\* Lines 123-158: the iteration for the image batch_number
SaveImage ==
    /\ pc = "loop"
    /\ batch_number < call.images
    /\ LET base_format == parse_output_format(call.output_format).base_format
           p == prepare_pnginfo(pnginfo, pnginfo_dict, batch_number, call.images,
                                call.prompt, call.extra_pnginfo, call.metadata_scope)
       IN /\ pnginfo_dict' = p.pnginfo_dict
          /\ IF ~p.returned /\ truthy_items(call.extra_metadata) # <<>>
             THEN \* metadata is None: metadata.add_text raises
                  /\ pc' = "AttributeError"
                  /\ pnginfo' = p.metadata
                  /\ UNCHANGED <<fs, batch_number, results, written>>
             ELSE LET metadata == IF p.returned
                                  THEN add_extra_metadata(p.metadata, call.extra_metadata)
                                  ELSE p.metadata
                      fwb == filename_with_batch_num(filename, batch_number,
                                                     call.include_batch_num)
                      first == fwb \o <<".">> \o base_format
                      file == IF path_exists(fs, path_join(full_output_folder, first))
                              THEN find_next_available_filename(fs, full_output_folder,
                                                                fwb, base_format)
                              ELSE first
                      path == path_join(full_output_folder, file)
                  IN /\ pc' = "loop"
                     /\ pnginfo' = metadata
                     /\ fs' = fs \cup {path}
                     /\ written' = Append(written,
                            [batch_number |-> batch_number,
                             path |-> path,
                             before |-> fs,
                             text |-> IF base_format = S_png /\ p.returned
                                      THEN metadata ELSE <<>>,
                             exif |-> IF base_format \in {S_jpg, S_webp}
                                      THEN <<gen_parameters_str(p.pnginfo_dict)>>
                                      ELSE <<>>])
                     /\ results' = Append(results,
                            [filename |-> file, subfolder |-> full_output_folder,
                             type |-> self_type])
                     /\ batch_number' = batch_number + 1
    /\ UNCHANGED <<call, filename, full_output_folder, now, fmt_result, ExtraVars, SelVars>>

\* Lines 160-170: the workflow JSON of the batch, and the return
SaveReturn ==
    /\ pc = "loop"
    /\ batch_number = call.images
    /\ IF parse_output_format(call.output_format).save_workflow_json
       THEN /\ fs' = fs \cup
                  {path_join(full_output_folder,
                             filename_with_batch_num(filename, call.images - 1,
                                                     call.include_batch_num)
                                \o <<".">> \o S_json)}
            /\ pc' = IF call.extra_pnginfo = <<>> THEN "TypeError"
                     ELSE IF ~has_workflow(call.extra_pnginfo[1]) THEN "KeyError"
                     ELSE "returned"
       ELSE /\ fs' = fs
            /\ pc' = "returned"
    /\ UNCHANGED <<call, filename, pnginfo_dict, full_output_folder, pnginfo,
                   batch_number, results, written, now, fmt_result, ExtraVars, SelVars>>

(***************************************************************************)
(* SpecSave: one call of save_images into an empty folder, over every      *)
(* metadata scope, output format, prompt and extra metadata                *)
(***************************************************************************)

\* The largest batch
MaxBatch == 2

N_f == <<"f">>
N_f_seed == <<"f">> \o P_seed
N_class == <<"[", "f", "]">>
N_sub == <<"s">>

Prompts == {<<>>, <<PyDict("prompt")>>}

ExtraPnginfos == {<<>>, << <<>> >>, << << <<"workflow", PyDict("workflow")>> >> >>}

ExtraMetadatas ==
    {<<>>,
     << <<"k", PyStr("v")>> >>,
     << <<"", PyStr("e")>>, <<"k", PyStr("v")>>, <<"n", PyDict("n")>> >>}

Calls(sizes, prefixes, subs, formats, scopes, prompts, extras, metas, records) ==
    [images : sizes, filename_prefix : prefixes, subdirectory_name : subs,
     output_format : formats, metadata_scope : scopes, include_batch_num : BOOLEAN,
     prompt : prompts, extra_pnginfo : extras, extra_metadata : metas,
     pnginfo_dict : records]

SaveCalls ==
    Calls(1..MaxBatch, {N_f, N_f_seed}, {<<>>, N_sub}, OUTPUT_FORMATS, METADATA_OPTIONS,
          Prompts, ExtraPnginfos, ExtraMetadatas, {<<>>, <<PromptRecord>>})

InitSave ==
    /\ pc = "save_images"
    /\ call \in SaveCalls
    /\ now \in Nows
    /\ filename = <<>>
    /\ fmt_result = Returned(<<>>)
    /\ pnginfo_dict = EmptyRecord
    /\ full_output_folder = <<>>
    /\ fs = {}
    /\ pnginfo = <<>>
    /\ batch_number = 0
    /\ results = <<>>
    /\ written = <<>>
    /\ ExtraIdle /\ SelIdle

NextSave == SaveImages \/ SaveImage \/ SaveReturn

SpecSave == InitSave /\ [][NextSave]_vars

(***************************************************************************)
(* SpecFolder: calls of save_images, one after the other, into the same    *)
(* output folder                                                           *)
(***************************************************************************)

\* The folder holds at most MaxFiles images
MaxFiles == 3

FolderCalls ==
    Calls(1..MaxBatch, {N_f, N_class}, {<<>>}, {S_png, S_png \o S_with_json, S_jpg},
          {"full"}, {<<>>}, {<< << <<"workflow", PyDict("workflow")>> >> >>}, {<<>>},
          {<<PromptRecord>>})

InitFolder ==
    /\ pc = "idle"
    /\ call = <<>>
    /\ now \in Nows
    /\ filename = <<>>
    /\ fmt_result = Returned(<<>>)
    /\ pnginfo_dict = EmptyRecord
    /\ full_output_folder = <<>>
    /\ fs = {}
    /\ pnginfo = <<>>
    /\ batch_number = 0
    /\ results = <<>>
    /\ written = <<>>
    /\ ExtraIdle /\ SelIdle

\* The node is executed once more
Execute(c) ==
    /\ pc \in {"idle"} \cup EndOfCall
    /\ Cardinality({p \in fs : ~endswith(p, S_json)}) + c.images <= MaxFiles
    /\ call' = c
    /\ pc' = "save_images"
    /\ UNCHANGED <<filename, pnginfo_dict, full_output_folder, fs, pnginfo,
                   batch_number, results, written, now, fmt_result, ExtraVars, SelVars>>

NextFolder == (\E c \in FolderCalls : Execute(c)) \/ SaveImages \/ SaveImage \/ SaveReturn

SpecFolder == InitFolder /\ [][NextFolder]_vars

(***************************************************************************)
(* Properties of save_images                                               *)
(***************************************************************************)

\* The loop of the running call has been entered.
InLoop == pc \in {"loop", "returned", "AttributeError", "TypeError", "KeyError"}

\* The record d with the batch fields of image k of n, as prepare_pnginfo is
\* documented to put them into its copy
WithBatchFields(d, k, n) ==
    IF n > 1
    THEN [x \in DOMAIN d \cup {"Batch index", "Batch size"} |->
             IF x = "Batch index" THEN k ELSE IF x = "Batch size" THEN n ELSE d[x]]
    ELSE d

\* The values of the chunks of a list that have the key `key`
ChunkValues(chunks, key) ==
    LET Test(c) == c.key = key
        found == SelectSeq(chunks, Test)
    IN [i \in 1..Len(found) |-> found[i].value]

ChunkKeys(chunks) == {chunks[i].key : i \in 1..Len(chunks)}

\* C1: from the entry into the loop to the end of the call, pnginfo_dict
\* holds the keys and values of the base record of the call, without
\* "Batch index" and "Batch size"; the parameters text made for an image of
\* a batch is made from a record that does carry the two fields.
C1_BaseRecordNeverMutated ==
    InLoop =>
        /\ pnginfo_dict = base_record(call)
        /\ DOMAIN pnginfo_dict \cap {"Batch index", "Batch size"} = {}
        /\ (call.metadata_scope = "full" /\ batch_number >= 1) =>
              LET made == ChunkValues(pnginfo, "parameters")
              IN /\ Len(made) = batch_number
                 /\ \A k \in 1..Len(made) :
                       made[k] = gen_parameters_str(
                                    WithBatchFields(base_record(call), k - 1, call.images))

\* Every image of a batch of two or more was prepared in scope "full" from a
\* record passed by the caller.
C1_Witness ==
    /\ pc = "loop"
    /\ call.images > 1
    /\ batch_number = call.images
    /\ call.metadata_scope = "full"
    /\ call.pnginfo_dict = <<PromptRecord>>
    /\ pnginfo_dict = PromptRecord
    /\ Len(ChunkValues(pnginfo, "parameters")) = call.images

\* C2: what is written with an image follows from metadata_scope, whatever
\* the format and the extra metadata: "none" writes nothing and the call
\* does not fail on the metadata; "workflow_only" writes no parameters and
\* no prompt; "default" writes the prompt and no parameters; "full" writes
\* the parameters and the prompt.
C2_ScopeDeterminesMetadata ==
    InLoop =>
        /\ pc # "AttributeError"
        /\ \A i \in 1..Len(written) :
              LET w == written[i]
                  scope == call.metadata_scope
                  has_parameters == "parameters" \in ChunkKeys(w.text) \/ w.exif # <<>>
                  has_prompt == "prompt" \in ChunkKeys(w.text)
              IN /\ scope = "none" => w.text = <<>> /\ w.exif = <<>>
                 /\ scope = "workflow_only" => ~has_parameters /\ ~has_prompt
                 /\ scope = "default" =>
                       ~has_parameters /\ (call.prompt # <<>> => has_prompt)
                 /\ scope = "full" =>
                       has_parameters /\ (call.prompt # <<>> => has_prompt)

\* What does hold of the scopes: the PNG text chunks of an image follow the
\* documented table, and the call with scope "none" writes no image and
\* fails when extra_metadata has a non-empty key.
SavePngScopes ==
    InLoop =>
        /\ LET fails == call.metadata_scope = "none"
                            /\ truthy_items(call.extra_metadata) # <<>>
           IN /\ pc = "AttributeError" => fails
              /\ fails => written = <<>> /\ pc \in {"loop", "AttributeError"}
        /\ \A i \in 1..Len(written) :
              LET w == written[i]
                  scope == call.metadata_scope
                  base_format == parse_output_format(call.output_format).base_format
              IN /\ w.exif # <<>> <=> base_format \in {S_jpg, S_webp}
                 /\ base_format # S_png => w.text = <<>>
                 /\ base_format = S_png =>
                       /\ "parameters" \in ChunkKeys(w.text) <=> scope = "full"
                       /\ "prompt" \in ChunkKeys(w.text) <=>
                             (call.prompt # <<>> /\ scope \in {"full", "default"})
                       /\ scope = "none" => w.text = <<>>

\* C9: in scope "full" and a batch of two or more, the metadata of image k
\* has one parameters entry, made from the record with Batch index k and
\* Batch size N, and no key of it occurs twice (nothing is left of the
\* images before it).  Stated of the PNG images, whose metadata is the
\* PngInfo object of the call.
C9_OneParametersEntryPerImage ==
    (/\ InLoop
     /\ call.metadata_scope = "full"
     /\ call.images > 1
     /\ parse_output_format(call.output_format).base_format = S_png) =>
        \A i \in 1..Len(written) :
           LET w == written[i]
           IN /\ ChunkValues(w.text, "parameters")
                    = <<gen_parameters_str(
                           WithBatchFields(base_record(call), w.batch_number,
                                           call.images))>>
              /\ \A key \in ChunkKeys(w.text) : Len(ChunkValues(w.text, key)) = 1

\* What does hold of a batch in scope "full": the PNG image k carries the
\* parameters entries of the images 0..k, its own being the last.
SaveParametersAccumulate ==
    (InLoop /\ call.metadata_scope = "full") =>
        \A i \in 1..Len(written) :
           LET w == written[i]
               entries == ChunkValues(w.text, "parameters")
           IN parse_output_format(call.output_format).base_format = S_png =>
                 /\ Len(entries) = w.batch_number + 1
                 /\ \A k \in 1..Len(entries) :
                       entries[k] = gen_parameters_str(
                                       WithBatchFields(base_record(call), k - 1,
                                                       call.images))

\* The path of the c-th alternative name of the image w
AlternativePath(w, c) ==
    path_join(full_output_folder,
              filename_with_batch_num(filename, w.batch_number, call.include_batch_num)
                 \o <<"_">> \o str(c) \o <<".">>
                 \o parse_output_format(call.output_format).base_format)

FirstChoicePath(w) ==
    path_join(full_output_folder,
              filename_with_batch_num(filename, w.batch_number, call.include_batch_num)
                 \o <<".">> \o parse_output_format(call.output_format).base_format)

\* The images of the running call were written as C10 says.
WrittenToFreePaths ==
    /\ \A i \in 1..Len(written) : written[i].path \notin written[i].before
    /\ \A i, j \in 1..Len(written) : i < j => written[i].path # written[j].path
    /\ \A i \in 1..Len(written) :
          LET w == written[i]
          IN IF FirstChoicePath(w) \notin w.before
             THEN w.path = FirstChoicePath(w)
             ELSE \E c \in 1..(MaxFiles + 1) :
                     /\ w.path = AlternativePath(w, c)
                     /\ \A b \in 1..c : (AlternativePath(w, b) \in w.before) <=> (b < c)

\* C10: every image is written to a path that did not exist just before, no
\* two images of a batch to the same path, and when the first choice exists
\* the name is <filename>_<c>.<format> for the smallest free c >= 1.
C10_NoOverwrite == InLoop => WrittenToFreePaths

\* C10 for the file names without a "[": those hold of every call.
FolderNoOverwriteLiteralNames ==
    (InLoop /\ \A k \in 1..Len(filename) : filename[k] # "[") => WrittenToFreePaths

====
